---- MODULE Spec2Model ----
(***************************************************************************)
(* State-machine model of the EPO BDDS client (package bdds): the cached   *)
(* OAuth2 token, the request-decoration hook, the authenticator and the    *)
(* retry loop that wraps every remote operation.                           *)
(*                                                                         *)
(* Time is counted in seconds.  One client instance is used by one caller  *)
(* (operations are synchronous); the identity endpoint and the resource    *)
(* API are the environment and answer nondeterministically.                *)
(***************************************************************************)
EXTENDS Integers, Sequences, FiniteSets, TLC

VARIABLES
    config,        \* Client.config after NewClient
    token,         \* Client.token
    tokenExpiry,   \* Client.tokenExpiry
    now,           \* time.Now(), in seconds
    pc,            \* position of the caller: "idle", "loop", "send", "check"
    op,            \* public operation in progress (or the last one)
    attempt,       \* loop variable of retryableRequest
    lastErr,       \* local lastErr of retryableRequest
    err,           \* value returned by the latest fn() invocation
    req,           \* headers of the resource request being sent / last sent
    result,        \* value returned by the latest public operation
    nOps,          \* number of public operations started
    calls,         \* fn() invocations of the current operation
    fails,         \* fn() invocations of the current operation that failed
    authCalls,     \* authenticate() invocations of the current operation
    reqs,          \* resource requests transmitted by the current operation
    opStale,       \* token was missing or stale when the operation started
    lastAuthResp,  \* identity endpoint's answer to the authenticate() call of
                   \* the request decoration just done (NoResp otherwise)
    lastAuthErr,   \* value returned by that authenticate() call
    opArgs,        \* identifiers passed to the operation in progress
    sleeps,        \* durations of the time.Sleep calls of the current operation
    opLimit,       \* number of public operations the caller issues
    input,         \* argument of a response mapping or derived lookup
    output,        \* what that mapping or lookup returned
    downloads,     \* per download call: position, attempt, lastErr, result
    readers,       \* per download call: the progressReader of its attempt
    bodies,        \* per download call: what is left of resp.Body
    sinks,         \* per download call: the bytes written to dst
    callbacks,     \* per download call: the progressFn invocations so far
    lastRead,      \* the latest Read on a download's stream, as observed
    ctxDone,       \* the caller's context is cancelled or past its deadline
    goroutines     \* per goroutine using the client: position and locals

\* The client and its single caller.
callerVars == <<config, token, tokenExpiry, now, pc, op, attempt, lastErr, err,
                req, result, nOps, calls, fails, authCalls, reqs, opStale,
                lastAuthResp, lastAuthErr, opArgs, sleeps, opLimit, input,
                output>>

\* The downloads in progress.
dlVars == <<downloads, readers, bodies, sinks, callbacks, lastRead>>

vars == <<callerVars, dlVars, ctxDone, goroutines>>

(***************************************************************************)
(* Bounds of the exploration.                                              *)
(***************************************************************************)
MaxOps == 2            \* public operations issued on the client
MaxRetriesCfg == 1     \* largest MaxRetries a caller writes into Config

(***************************************************************************)
(* Program constants.                                                      *)
(***************************************************************************)
tokenTTL == 3600
tokenRefreshBuffer == 300
ZeroTime == 0          \* time.Time{}

(***************************************************************************)
(* Error values.  "type" is the dynamic Go type of the error value, which  *)
(* is what a type assertion on an error inspects.                          *)
(***************************************************************************)
Nil == [type |-> "nil"]

AuthError(status, body) ==
    [type |-> "AuthError", StatusCode |-> status, Message |-> body]

NotFoundError(resource, id) ==
    [type |-> "NotFoundError", Resource |-> resource, ID |-> id]

RateLimitError(retryAfter) ==
    [type |-> "RateLimitError", RetryAfter |-> retryAfter]

\* fmt.Sprintf("%d", n): the decimal digits of n as a string (a sequence of
\* characters), with a leading "-" for a negative n.
DigitChar(d) == <<"0", "1", "2", "3", "4", "5", "6", "7", "8", "9">>[d + 1]
RECURSIVE Digits(_)
Digits(n) ==
    IF n < 10 THEN <<DigitChar(n)>>
    ELSE Digits(n \div 10) \o <<DigitChar(n % 10)>>
Decimal(n) == IF n < 0 THEN <<"-">> \o Digits(0 - n) ELSE Digits(n)

\* fmt.Errorf with a %w verb: a wrapError around inner; args are the
\* values formatted into the message.
Wrap(msg, args, inner) ==
    [type |-> "wrapError", msg |-> msg, args |-> args, inner |-> inner]

\* fmt.Errorf without %w: a plain error carrying only its text.
Errorf(msg, args) ==
    [type |-> "errorString", msg |-> msg, args |-> args]

\* Failure reported by the HTTP transport (DNS, TLS, timeout, cancellation).
TransportError == [type |-> "url.Error"]
\* Failure reported by the JSON decoder.
SyntaxError == [type |-> "json.SyntaxError"]
\* Failure of io.Copy while streaming a body to the sink.
CopyError == [type |-> "io.Error"]

\* The type assertion on *AuthError: true only when err itself is one.
IsAuthError(e) == e.type = "AuthError"

(***************************************************************************)
(* Configuration.                                                          *)
(***************************************************************************)
DefaultConfig ==
    [Username |-> "", Password |-> "",
     BaseURL |-> "https://publication-bdds.apps.epo.org",
     UserAgent |-> "PatentDev/BDDS/1.0",
     MaxRetries |-> 3, RetryDelay |-> 1, Timeout |-> 30]

\* The nil *Config.
NilConfig == [nil |-> TRUE]

\* The defaulting part of NewClient.
NewClientKeepsZeroRetries(c) ==
    IF c = NilConfig THEN DefaultConfig
    ELSE [c EXCEPT
       !.BaseURL    = IF @ = "" THEN DefaultConfig.BaseURL ELSE @,
       !.UserAgent  = IF @ = "" THEN DefaultConfig.UserAgent ELSE @,
       !.RetryDelay = IF @ = 0 THEN DefaultConfig.RetryDelay ELSE @,
       !.Timeout    = IF @ = 0 THEN DefaultConfig.Timeout ELSE @]

NewClient(c) ==
    IF c = NilConfig THEN DefaultConfig
    ELSE [c EXCEPT
       !.BaseURL    = IF @ = "" THEN DefaultConfig.BaseURL ELSE @,
       !.UserAgent  = IF @ = "" THEN DefaultConfig.UserAgent ELSE @,
       !.MaxRetries = IF @ = 0 THEN DefaultConfig.MaxRetries ELSE @,
       !.RetryDelay = IF @ = 0 THEN DefaultConfig.RetryDelay ELSE @,
       !.Timeout    = IF @ = 0 THEN DefaultConfig.Timeout ELSE @]

\* Configurations callers pass to NewClient.
RawConfigs ==
    [Username : {"", "user"}, Password : {"", "pass"}, UserAgent : {""},
     BaseURL : {""}, Timeout : {0},
     MaxRetries : -1 .. MaxRetriesCfg, RetryDelay : {0, 1}]

(***************************************************************************)
(* The environment: answers of the identity endpoint and the resource API. *)
(***************************************************************************)
\* A body of the identity endpoint: text that is not JSON, or a JSON object
\* whose access_token member may be absent (decoded as "") and which
\* advertises a lifetime expires_in.
Malformed == [parses |-> FALSE]
TokenJSON(t, e) == [parses |-> TRUE, access_token |-> t, expires_in |-> e]
OkBodies ==
    {Malformed, TokenJSON("", 3600), TokenJSON("tokA", 3600),
     TokenJSON("tokA", 1800), TokenJSON("tokB", 1800)}
RejectBodies == {Malformed, TokenJSON("tokA", 3600)}
RejectStatuses == {401, 500}
NoResp == [kind |-> "none"]
AuthResponses ==
    {[kind |-> "transport"]} \cup
    {[kind |-> "http", status |-> 200, body |-> b] : b \in OkBodies} \cup
    {[kind |-> "http", status |-> s, body |-> b] :
        s \in RejectStatuses, b \in RejectBodies}

\* json200: the decoded body is present; stream: the body can be read to
\* its end (downloads).
ApiStatuses == {200, 401, 404, 500}
ApiResponses ==
    {[kind |-> "transport"]} \cup
    {[kind |-> "http", status |-> s, body |-> "raw", json200 |-> j,
      stream |-> c] :
        s \in ApiStatuses, j \in BOOLEAN, c \in {"ok", "fail"}}

Ops == {"ListProducts", "GetProduct", "DownloadFile"}
\* Identifiers the caller passes: none, a product, or product/delivery/file.
ArgsOf(o) ==
    CASE o = "ListProducts" -> {<<>>}
      [] o = "GetProduct"   -> {<<999>>}
      [] o = "DownloadFile" -> {<<3, 12345, 67890>>}
Gaps == {0, 3299}     \* seconds elapsed between two operations

NoHeader == <<>>
Bearer(t) == <<"Bearer ", t>>          \* "Bearer " + c.token
NoRequest == [sent |-> FALSE]
NoResult == [type |-> "none"]
NoInput == [kind |-> "none"]
NoOutput == [kind |-> "none"]

(***************************************************************************)
(* Token Manager and Authenticator.                                        *)
(***************************************************************************)
\* The freshness test of ensureValidToken.
TokenValidIgnoresExpiry(tok, exp, t) == tok # ""
TokenValidNever(tok, exp, t) == FALSE
TokenValid(tok, exp, t) == tok # "" /\ t + tokenRefreshBuffer < exp

\* authenticate: one exchange with the identity endpoint, answered by r at
\* time t; tok/exp are the cached values before the call.
authenticateKeepsExpiry(r, tok, exp, t) ==
    IF r.kind = "transport"
    THEN [err |-> Wrap("auth request failed", <<>>, TransportError),
          token |-> tok, tokenExpiry |-> exp]
    ELSE IF r.status # 200
    THEN [err |-> AuthError(r.status, r.body),
          token |-> tok, tokenExpiry |-> exp]
    ELSE IF ~r.body.parses
    THEN [err |-> Wrap("failed to parse token response", <<>>, SyntaxError),
          token |-> tok, tokenExpiry |-> exp]
    ELSE [err |-> Nil,
          token |-> r.body.access_token, tokenExpiry |-> exp]
authenticateClearsOnFailure(r, tok, exp, t) ==
    IF r.kind = "transport"
    THEN [err |-> Wrap("auth request failed", <<>>, TransportError),
          token |-> "", tokenExpiry |-> ZeroTime]
    ELSE IF r.status # 200
    THEN [err |-> AuthError(r.status, r.body),
          token |-> "", tokenExpiry |-> ZeroTime]
    ELSE IF ~r.body.parses
    THEN [err |-> Wrap("failed to parse token response", <<>>, SyntaxError),
          token |-> "", tokenExpiry |-> ZeroTime]
    ELSE [err |-> Nil,
          token |-> r.body.access_token, tokenExpiry |-> t + tokenTTL]
authenticateUsesExpiresIn(r, tok, exp, t) ==
    IF r.kind = "transport"
    THEN [err |-> Wrap("auth request failed", <<>>, TransportError),
          token |-> tok, tokenExpiry |-> exp]
    ELSE IF r.status # 200
    THEN [err |-> AuthError(r.status, r.body),
          token |-> tok, tokenExpiry |-> exp]
    ELSE IF ~r.body.parses
    THEN [err |-> Wrap("failed to parse token response", <<>>, SyntaxError),
          token |-> tok, tokenExpiry |-> exp]
    ELSE [err |-> Nil,
          token |-> r.body.access_token,
          tokenExpiry |-> t + r.body.expires_in]
authenticateRejectsOnly401(r, tok, exp, t) ==
    IF r.kind = "transport"
    THEN [err |-> Wrap("auth request failed", <<>>, TransportError),
          token |-> tok, tokenExpiry |-> exp]
    ELSE IF r.status = 401
    THEN [err |-> AuthError(r.status, r.body),
          token |-> tok, tokenExpiry |-> exp]
    ELSE IF ~r.body.parses
    THEN [err |-> Wrap("failed to parse token response", <<>>, SyntaxError),
          token |-> tok, tokenExpiry |-> exp]
    ELSE [err |-> Nil,
          token |-> r.body.access_token, tokenExpiry |-> t + tokenTTL]
authenticate(r, tok, exp, t) ==
    IF r.kind = "transport"
    THEN [err |-> Wrap("auth request failed", <<>>, TransportError),
          token |-> tok, tokenExpiry |-> exp]
    ELSE IF r.status # 200
    THEN [err |-> AuthError(r.status, r.body),
          token |-> tok, tokenExpiry |-> exp]
    ELSE IF ~r.body.parses
    THEN [err |-> Wrap("failed to parse token response", <<>>, SyntaxError),
          token |-> tok, tokenExpiry |-> exp]
    ELSE [err |-> Nil,
          token |-> r.body.access_token, tokenExpiry |-> t + tokenTTL]

\* ensureValidToken; "called" tells whether authenticate ran.
ensureValidTokenAlwaysAuthenticates(r, c, tok, exp, t) ==
    IF c.Username = "" \/ c.Password = ""
    THEN [err |-> Nil, token |-> tok, tokenExpiry |-> exp, called |-> FALSE]
    ELSE LET a == authenticate(r, tok, exp, t)
         IN  [err |-> a.err, token |-> a.token, tokenExpiry |-> a.tokenExpiry,
              called |-> TRUE]
ensureValidToken(r, c, tok, exp, t) ==
    IF c.Username = "" \/ c.Password = ""
    THEN [err |-> Nil, token |-> tok, tokenExpiry |-> exp, called |-> FALSE]
    ELSE IF TokenValid(tok, exp, t)
    THEN [err |-> Nil, token |-> tok, tokenExpiry |-> exp, called |-> FALSE]
    ELSE LET a == authenticate(r, tok, exp, t)
         IN  [err |-> a.err, token |-> a.token, tokenExpiry |-> a.tokenExpiry,
              called |-> TRUE]

\* authRequestEditor: the request-decoration hook.  "authErr" is what
\* ensureValidToken returned, "err" what the hook returns.
authRequestEditorEitherCredential(r, c, tok, exp, t) ==
    IF c.Username # "" \/ c.Password # ""
    THEN LET e == ensureValidToken(r, c, tok, exp, t)
         IN  IF e.err.type # "nil"
             THEN [err |-> Wrap("authentication failed", <<>>, e.err),
                   authErr |-> e.err, headers |-> NoRequest,
                   token |-> e.token, tokenExpiry |-> e.tokenExpiry,
                   called |-> e.called]
             ELSE [err |-> Nil, authErr |-> e.err,
                   headers |-> [sent |-> TRUE,
                                Authorization |-> Bearer(e.token),
                                UserAgent |-> c.UserAgent],
                   token |-> e.token, tokenExpiry |-> e.tokenExpiry,
                   called |-> e.called]
    ELSE [err |-> Nil, authErr |-> Nil,
          headers |-> [sent |-> TRUE, Authorization |-> NoHeader,
                       UserAgent |-> c.UserAgent],
          token |-> tok, tokenExpiry |-> exp, called |-> FALSE]
authRequestEditorIgnoresAuthError(r, c, tok, exp, t) ==
    IF c.Username # "" /\ c.Password # ""
    THEN LET e == ensureValidToken(r, c, tok, exp, t)
         IN  [err |-> Nil, authErr |-> e.err,
              headers |-> [sent |-> TRUE,
                           Authorization |-> Bearer(e.token),
                           UserAgent |-> c.UserAgent],
              token |-> e.token, tokenExpiry |-> e.tokenExpiry,
              called |-> e.called]
    ELSE [err |-> Nil, authErr |-> Nil,
          headers |-> [sent |-> TRUE, Authorization |-> NoHeader,
                       UserAgent |-> c.UserAgent],
          token |-> tok, tokenExpiry |-> exp, called |-> FALSE]
authRequestEditor(r, c, tok, exp, t) ==
    IF c.Username # "" /\ c.Password # ""
    THEN LET e == ensureValidToken(r, c, tok, exp, t)
         IN  IF e.err.type # "nil"
             THEN [err |-> Wrap("authentication failed", <<>>, e.err),
                   authErr |-> e.err, headers |-> NoRequest,
                   token |-> e.token, tokenExpiry |-> e.tokenExpiry,
                   called |-> e.called]
             ELSE [err |-> Nil, authErr |-> e.err,
                   headers |-> [sent |-> TRUE,
                                Authorization |-> Bearer(e.token),
                                UserAgent |-> c.UserAgent],
                   token |-> e.token, tokenExpiry |-> e.tokenExpiry,
                   called |-> e.called]
    ELSE [err |-> Nil, authErr |-> Nil,
          headers |-> [sent |-> TRUE, Authorization |-> NoHeader,
                       UserAgent |-> c.UserAgent],
          token |-> tok, tokenExpiry |-> exp, called |-> FALSE]

(***************************************************************************)
(* Transport Client: what fn() returns for the answer of the resource API. *)
(***************************************************************************)
ListProductsAccepts2xx(resp) ==
    IF resp.kind = "transport" THEN TransportError
    ELSE IF resp.status < 200 \/ resp.status > 299
    THEN Errorf("unexpected status", <<resp.status, resp.body>>)
    ELSE IF ~resp.json200 THEN Errorf("empty response body", <<>>)
    ELSE Nil

ListProducts(resp) ==
    IF resp.kind = "transport" THEN TransportError
    ELSE IF resp.status # 200
    THEN Errorf("unexpected status", <<resp.status, resp.body>>)
    ELSE IF ~resp.json200 THEN Errorf("empty response body", <<>>)
    ELSE Nil

GetProduct(productID, resp) ==
    IF resp.kind = "transport" THEN TransportError
    ELSE IF resp.status = 404
    THEN NotFoundError("product", Decimal(productID))
    ELSE IF resp.status # 200
    THEN Errorf("unexpected status", <<resp.status, resp.body>>)
    ELSE IF ~resp.json200 THEN Errorf("empty response body", <<>>)
    ELSE Nil

DownloadFileWithProgress(productID, deliveryID, fileID, resp) ==
    IF resp.kind = "transport" THEN TransportError
    ELSE IF resp.status = 404
    THEN NotFoundError("file",
             Decimal(productID) \o <<"/">> \o Decimal(deliveryID)
                 \o <<"/">> \o Decimal(fileID))
    ELSE IF resp.status # 200
    THEN Errorf("unexpected status", <<resp.status, resp.body>>)
    ELSE IF resp.stream = "ok" THEN Nil ELSE CopyError

fnRateLimited(o, a, resp) ==
    IF resp.kind = "http" /\ resp.status = 429 THEN RateLimitError(60)
    ELSE CASE o = "ListProducts" -> ListProducts(resp)
           [] o = "GetProduct"   -> GetProduct(a[1], resp)
           [] o = "DownloadFile" ->
                  DownloadFileWithProgress(a[1], a[2], a[3], resp)

fn(o, a, resp) ==
    CASE o = "ListProducts" -> ListProducts(resp)
      [] o = "GetProduct"   -> GetProduct(a[1], resp)
      [] o = "DownloadFile" ->
             DownloadFileWithProgress(a[1], a[2], a[3], resp)

\* What the closure of ListProducts or GetProduct has stored in the caller's
\* result when it returns: the converted JSON200 once the status and body
\* checks have passed, otherwise the nil it started with.
NoData == "nil"
resultOf(o, resp) ==
    IF o = "DownloadFile" THEN NoData
    ELSE IF resp.kind = "transport" THEN NoData
    ELSE IF o = "GetProduct" /\ resp.status = 404 THEN NoData
    ELSE IF resp.status # 200 THEN NoData
    ELSE IF ~resp.json200 THEN NoData
    ELSE "converted"

(***************************************************************************)
(* The state machine.                                                      *)
(***************************************************************************)
\* The state after NewClient: a client built from one configuration of cfgs,
\* no token, and a caller that will issue n operations.
Constructed(cfgs, n) ==
    /\ config \in cfgs
    /\ token = ""
    /\ tokenExpiry = ZeroTime
    /\ now = 1                  \* any instant after ZeroTime
    /\ pc = "idle"
    /\ op = "none"
    /\ attempt = 0
    /\ lastErr = Nil
    /\ err = Nil
    /\ req = NoRequest
    /\ result = NoResult
    /\ nOps = 0
    /\ calls = 0
    /\ fails = 0
    /\ authCalls = 0
    /\ reqs = 0
    /\ opStale = FALSE
    /\ lastAuthResp = NoResp
    /\ lastAuthErr = Nil
    /\ opArgs = <<>>
    /\ sleeps = <<>>
    /\ opLimit = n

\* No response mapping or derived lookup is in progress.
NoLookup == input = NoInput /\ output = NoOutput

\* No download is observed.
NoRead == [call |-> 0]
NoDownload ==
    /\ downloads = <<>> /\ readers = <<>> /\ bodies = <<>>
    /\ sinks = <<>> /\ callbacks = <<>> /\ lastRead = NoRead

\* The caller's context is context.Background(): it is never done.
Background == ctxDone = FALSE

\* No goroutine other than the caller uses the client.
OneGoroutine == goroutines = <<>>

Init == Constructed({NewClient(c) : c \in RawConfigs}, MaxOps) /\ NoLookup
            /\ NoDownload /\ Background /\ OneGoroutine

\* The caller issues a public operation, gap seconds after the previous
\* one returned; retryableRequest starts with attempt = 0.
Call(o, a, gap) ==
    /\ pc = "idle"
    /\ nOps < opLimit
    /\ opArgs' = a
    /\ sleeps' = <<>>
    /\ now' = now + gap
    /\ op' = o
    /\ nOps' = nOps + 1
    /\ attempt' = 0
    /\ lastErr' = Nil
    /\ err' = Nil
    /\ req' = NoRequest
    /\ result' = NoResult
    /\ calls' = 0
    /\ fails' = 0
    /\ authCalls' = 0
    /\ reqs' = 0
    /\ opStale' = (token = "" \/ now' + tokenRefreshBuffer >= tokenExpiry)
    /\ pc' = "loop"
    /\ lastAuthResp' = NoResp
    /\ lastAuthErr' = Nil
    /\ UNCHANGED <<dlVars, ctxDone, goroutines>>
    /\ UNCHANGED <<config, token, tokenExpiry, opLimit, input, output>>

\* The generated client hands the error of a request editor back to its
\* caller as it is, without sending the request.
applyEditors(e) == e

\* The loop condition of retryableRequest.
LoopCondOffByOne(a, c) == a < c.MaxRetries
LoopCond(a, c) == a <= c.MaxRetries

\* An attempt starts: fn() builds the request and the generated client runs
\* the request editor on it; r is the identity endpoint's answer, used if
\* the editor authenticates.
Invoke(r) ==
    /\ pc = "loop"
    /\ LoopCond(attempt, config)
    /\ LET ed == authRequestEditor(r, config, token, tokenExpiry, now)
       IN  /\ token' = ed.token
           /\ tokenExpiry' = ed.tokenExpiry
           /\ calls' = calls + 1
           /\ authCalls' = authCalls + (IF ed.called THEN 1 ELSE 0)
           /\ lastAuthResp' = IF ed.called THEN r ELSE NoResp
           /\ lastAuthErr' = IF ed.called THEN ed.authErr ELSE Nil
           /\ req' = ed.headers
           /\ IF ed.err.type = "nil"
              THEN pc' = "send" /\ err' = err
              ELSE pc' = "check" /\ err' = applyEditors(ed.err)
    /\ UNCHANGED <<dlVars, ctxDone, goroutines>>
    /\ UNCHANGED <<config, now, op, attempt, lastErr, result, nOps, fails,
                   reqs, opStale, opArgs, sleeps, opLimit, input, output>>

\* The decorated request goes to the resource API, which answers resp; fn()
\* maps the answer and returns.
Send(resp) ==
    /\ pc = "send"
    /\ reqs' = reqs + 1
    /\ err' = fn(op, opArgs, resp)
    /\ pc' = "check"
    /\ lastAuthResp' = NoResp
    /\ lastAuthErr' = Nil
    /\ UNCHANGED <<dlVars, ctxDone, goroutines>>
    /\ UNCHANGED <<config, token, tokenExpiry, now, op, attempt, lastErr, req,
                   result, nOps, calls, fails, authCalls, opStale, opArgs,
                   sleeps, opLimit, input, output>>

\* The duration, in seconds, handed to time.Sleep after the failed attempt a.
DelayConstant(a, c) == c.RetryDelay
Delay(a, c) == c.RetryDelay * (a + 1)

\* The back-off of retryableRequest after the failed attempt a: the time
\* that passes (time.Sleep returns at once for a duration <= 0).
Backoff(a, c) ==
    IF a < c.MaxRetries /\ Delay(a, c) > 0
    THEN Delay(a, c) ELSE 0

\* The assignment lastErr = err of the loop body.
KeepFirstErr(prev, e) == IF prev.type = "nil" THEN e ELSE prev
NextLastErr(prev, e) == e

\* The error retryableRequest returns once the loop is over.
RetriesExhausted(c, le) == Wrap("failed after %d retries", <<c.MaxRetries>>, le)

\* The attempt index after the failed attempt a, whose error was e: the loop
\* body has no return or break for any kind of error, so the post statement
\* attempt++ runs after every failure.
NextAttemptStuck(a, e, c) == a
NextAttemptGivesUpOnNotFound(a, e, c) ==
    IF e.type = "NotFoundError" THEN c.MaxRetries + 1 ELSE a + 1
NextAttempt(a, e, c) == a + 1

\* The body of the retry loop after fn() returned.
Check ==
    /\ pc = "check"
    /\ IF err.type = "nil"
       THEN /\ result' = Nil
            /\ pc' = "idle"
            /\ UNCHANGED <<token, tokenExpiry, now, attempt, lastErr, fails,
                           sleeps>>
       ELSE /\ lastErr' = NextLastErr(lastErr, err)
            /\ fails' = fails + 1
            /\ IF IsAuthError(err) /\ err.StatusCode = 401
                  /\ attempt < config.MaxRetries
               THEN token' = "" /\ tokenExpiry' = ZeroTime
               ELSE UNCHANGED <<token, tokenExpiry>>
            /\ sleeps' = IF attempt < config.MaxRetries
                         THEN Append(sleeps, Delay(attempt, config))
                         ELSE sleeps
            /\ now' = now + Backoff(attempt, config)
            /\ attempt' = NextAttempt(attempt, err, config)
            /\ pc' = "loop"
            /\ UNCHANGED result
    /\ lastAuthResp' = NoResp
    /\ lastAuthErr' = Nil
    /\ UNCHANGED <<dlVars, ctxDone, goroutines>>
    /\ UNCHANGED <<config, op, err, req, nOps, calls, authCalls, reqs, opStale,
                   opArgs, opLimit, input, output>>

\* The loop ran out of attempts: retryableRequest returns the wrapped error.
Exhausted ==
    /\ pc = "loop"
    /\ ~LoopCond(attempt, config)
    /\ result' = RetriesExhausted(config, lastErr)
    /\ pc' = "idle"
    /\ UNCHANGED <<dlVars, ctxDone, goroutines>>
    /\ UNCHANGED <<config, token, tokenExpiry, now, op, attempt, lastErr, err,
                   req, nOps, calls, fails, authCalls, reqs, opStale,
                   lastAuthResp, lastAuthErr, opArgs, sleeps, opLimit, input,
                   output>>

Next ==
    \/ \E o \in Ops, gap \in Gaps : \E a \in ArgsOf(o) : Call(o, a, gap)
    \/ \E r \in AuthResponses : Invoke(r)
    \/ \E resp \in ApiResponses : Send(resp)
    \/ Check
    \/ Exhausted

Spec == Init /\ [][Next]_vars

(***************************************************************************)
(* Properties.  The definitions below speak about the state machine in    *)
(* their own words: they do not reuse the operators that model the code.   *)
(***************************************************************************)
Credentials == config.Username # "" /\ config.Password # ""
Returned == pc = "idle" /\ nOps > 0
ReturnedError == Returned /\ result.type # "nil"
InvokeStep == calls' = calls + 1            \* fn() is invoked in this step
AuthStep == authCalls' = authCalls + 1      \* authenticate() runs in this step
Stale == token = "" \/ now + tokenRefreshBuffer >= tokenExpiry

\* The attempt's failure was caused by a 401 of the remote side: the resource
\* API answered 401, or the identity endpoint did.
Remote401(e) ==
    \/ e.type = "AuthError" /\ e.StatusCode = 401
    \/ e.type = "errorString" /\ e.msg = "unexpected status"
         /\ e.args[1] = 401
    \/ e.type = "wrapError" /\ e.inner.type = "AuthError"
         /\ e.inner.StatusCode = 401

\* C1: retryableRequest invokes the wrapped operation at most MaxRetries+1
\* times; it returns at the first successful invocation, which is therefore
\* the last one; and when it returns an error every one of exactly
\* MaxRetries+1 invocations has failed.
C1_AttemptBound ==
    /\ calls <= config.MaxRetries + 1
    /\ calls - fails \in {0, 1}
    /\ pc = "loop" => calls = fails
    /\ (Returned /\ result.type = "nil") => calls = fails + 1
    /\ ReturnedError => (calls = fails /\ calls = config.MaxRetries + 1)

\* C1 witness: an operation returned success after a failed attempt and
\* before its attempts were used up.
C1_Witness ==
    /\ Returned /\ result.type = "nil"
    /\ fails >= 1
    /\ calls <= config.MaxRetries

\* C2 (as claimed): after an attempt that failed on a 401 of the remote
\* side, with attempts remaining and a token cached, the retry loop clears
\* token and expiry before the next attempt.
C2_ClearsTokenOn401 ==
    [][(pc = "check" /\ Remote401(err) /\ attempt < config.MaxRetries
          /\ token # "")
         => (token' = "" /\ tokenExpiry' = ZeroTime)]_vars

\* C3 (as claimed): an operation that starts with a missing or stale token
\* makes exactly one authentication call.
C3_OneAuthPerOperation ==
    (Returned /\ Credentials /\ opStale /\ calls > 0) => authCalls = 1

\* C3 (amended): with credentials configured, every attempt that starts with
\* a missing or stale token makes exactly one authentication call, no
\* resource request is sent in that step, the attempt goes on to its
\* resource request only if that call succeeded, and a resource request is
\* only ever sent by the later step that follows the request decoration.
C3_OneAuthPerStaleAttempt ==
    [][/\ (InvokeStep /\ Credentials /\ Stale)
            => /\ authCalls' = authCalls + 1
               /\ reqs' = reqs
               /\ (pc' = "send") = (lastAuthErr'.type = "nil")
               /\ (pc' = "check") = (lastAuthErr'.type # "nil")
       /\ (reqs' = reqs + 1) => (pc = "send" /\ authCalls' = authCalls)]_vars

\* C3 witness: a second attempt of one operation has authenticated again and
\* is about to send its resource request.
C3_Witness ==
    /\ Credentials /\ opStale
    /\ pc = "send" /\ calls = 2 /\ authCalls = 2

\* C4: with credentials configured, request decoration with a non-empty
\* token and now + 5 minutes < expiry makes no authentication call, leaves
\* token and expiry alone and puts that token on the request.
C4_FreshTokenReused ==
    [][(InvokeStep /\ Credentials /\ token # ""
          /\ now + tokenRefreshBuffer < tokenExpiry)
         => /\ authCalls' = authCalls
            /\ token' = token /\ tokenExpiry' = tokenExpiry
            /\ pc' = "send"
            /\ req'.sent /\ req'.Authorization = <<"Bearer ", token>>]_vars

\* C4 witness: the second operation sends a request carrying the token the
\* first one obtained, without having authenticated.
C4_Witness ==
    /\ Credentials /\ nOps = 2 /\ pc = "send"
    /\ authCalls = 0 /\ token # ""
    /\ req.Authorization = <<"Bearer ", token>>

\* C5: unless both username and password are set, no authentication call is
\* made, the token stays empty and no request carries an Authorization
\* header.
C5_NoCredentialsNoAuth ==
    ~Credentials =>
        /\ authCalls = 0 /\ lastAuthResp = NoResp
        /\ token = "" /\ tokenExpiry = ZeroTime
        /\ req.sent => req.Authorization = <<>>

\* C5 witness: only the username is set and the second operation has sent
\* resource requests.
C5_Witness ==
    /\ config.Username # "" /\ config.Password = ""
    /\ nOps = 2 /\ reqs >= 2 /\ req.sent

\* C6 (as claimed): whenever ensureValidToken returns success with
\* credentials configured (the attempt goes on to send its request), the
\* held token is non-empty and now + refreshBuffer < expiry.
C6_TokenValidAfterEnsure ==
    [][(InvokeStep /\ Credentials /\ pc' = "send")
         => (token' # "" /\ now' + tokenRefreshBuffer < tokenExpiry')]_vars

C8_TokenAndExpiryOnSuccess ==
    [][(AuthStep /\ lastAuthResp'.kind = "http" /\ lastAuthResp'.status = 200
          /\ lastAuthResp'.body.parses)
         => /\ lastAuthErr'.type = "nil"
            /\ token' = lastAuthResp'.body.access_token
            /\ tokenExpiry' = now + tokenTTL]_vars

\* C8 witness: the identity endpoint advertised a lifetime other than one
\* hour and the token it issued is cached with an expiry one hour ahead.
C8_Witness ==
    /\ pc = "send" /\ authCalls >= 1
    /\ lastAuthResp.kind = "http" /\ lastAuthResp.status = 200
    /\ lastAuthResp.body.parses
    /\ lastAuthResp.body.expires_in # tokenTTL
    /\ token = lastAuthResp.body.access_token /\ token # ""
    /\ tokenExpiry = now + tokenTTL

\* C9: authenticate classifies its outcome by cause: a transport failure
\* gives a wrapped, non-Authentication error; any non-200 status gives an
\* Authentication error with that status and the raw body; a 200 with a
\* malformed body gives a wrapped parse error; anything else is success.
C9_AuthFailureKinds ==
    [][AuthStep =>
         LET r == lastAuthResp'
             e == lastAuthErr'
         IN  IF r.kind = "transport"
             THEN /\ e.type = "wrapError" /\ e.msg = "auth request failed"
                  /\ e.inner.type = "url.Error"
             ELSE IF r.status # 200
             THEN /\ e.type = "AuthError"
                  /\ e.StatusCode = r.status /\ e.Message = r.body
             ELSE IF ~r.body.parses
             THEN /\ e.type = "wrapError"
                  /\ e.msg = "failed to parse token response"
                  /\ e.inner.type = "json.SyntaxError"
             ELSE e.type = "nil"]_vars

\* C9 witness: a 500 whose body would parse as a token payload has been
\* turned into an Authentication error carrying status and body.
C9_Witness ==
    /\ authCalls >= 1 /\ lastAuthErr.type = "AuthError"
    /\ lastAuthErr.StatusCode = 500
    /\ lastAuthErr.Message = [parses |-> TRUE, access_token |-> "tokA",
                              expires_in |-> 3600]

\* C10 (as claimed): the error returned once every attempt has failed wraps
\* the last attempt's error and is annotated with the number of attempts
\* made.
C10_AnnotatedWithAttempts ==
    (ReturnedError /\ calls > 0)
        => /\ result.type = "wrapError" /\ result.inner = err
           /\ result.args = <<calls>>

\* C10 (amended): the error returned once every attempt has failed wraps the
\* last attempt's error and is annotated with MaxRetries, the number of
\* retries, which is one less than the number of attempts made.
C10_AnnotatedWithMaxRetries ==
    (ReturnedError /\ calls > 0)
        => /\ result.type = "wrapError" /\ result.inner = err
           /\ result.msg = "failed after %d retries"
           /\ result.args = <<config.MaxRetries>>
           /\ calls = config.MaxRetries + 1

\* C10 witness: four attempts have failed, the last on a missing product,
\* and the operation has returned.
C10_Witness ==
    /\ ReturnedError /\ calls = 4
    /\ err.type = "NotFoundError"
    /\ result.type = "wrapError" /\ result.inner = err

\* ------------------------------------------------------------------
\* Back-off schedule: one operation under configurations with different
\* retry delays.

MaxDelayCfg == 3

BackoffConfigs ==
    {NewClient(c) : c \in [Username : {"", "user"}, Password : {"pass"},
                           UserAgent : {""},
                           BaseURL : {""}, Timeout : {0},
                           MaxRetries : 0 .. MaxRetriesCfg,
                           RetryDelay : 0 .. MaxDelayCfg]}

InitBackoff == Constructed(BackoffConfigs, 1) /\ NoLookup
            /\ NoDownload /\ Background /\ OneGoroutine

SpecBackoff == InitBackoff /\ [][Next]_vars

RECURSIVE Sum(_)
Sum(s) == IF s = <<>> THEN 0 ELSE Head(s) + Sum(Tail(s))

C12_NotFoundReturned ==
    (ReturnedError /\ err.type = "NotFoundError")
        => /\ result.type = "NotFoundError"
           /\ op = "GetProduct" /\ opArgs = <<999>>
                => /\ result.Resource = "product"
                   /\ result.ID = <<"9", "9", "9">>
           /\ op = "DownloadFile" /\ opArgs = <<3, 12345, 67890>>
                => /\ result.Resource = "file"
                   /\ result.ID = <<"3", "/", "1", "2", "3", "4", "5", "/",
                                    "6", "7", "8", "9", "0">>

\* ------------------------------------------------------------------
\* Response mapping: what one attempt's closure makes of one response.

MapStatuses == {200, 201, 204, 301, 401, 404, 429, 500}

MapResponses ==
    {[kind |-> "transport"]} \cup
    {[kind |-> "http", status |-> s, body |-> b, json200 |-> j,
      stream |-> c] :
        s \in MapStatuses, b \in {"", "raw"}, j \in BOOLEAN,
        c \in {"ok", "fail"}}

MapArgs(o) ==
    CASE o = "ListProducts" -> {<<>>}
      [] o = "GetProduct"   -> {<<7>>, <<999>>}
      [] o = "DownloadFile" -> {<<3, 12345, 67890>>}

\* The closure passed to retryableRequest runs on the response resp.
Respond(o, a, resp) ==
    /\ input' = [kind |-> "response", op |-> o, args |-> a, resp |-> resp]
    /\ output' = [kind |-> "mapped", err |-> fn(o, a, resp),
                  data |-> resultOf(o, resp)]
    /\ UNCHANGED <<dlVars, ctxDone, goroutines>>
    /\ UNCHANGED <<config, token, tokenExpiry, now, pc, op, attempt, lastErr,
                   err, req, result, nOps, calls, fails, authCalls, reqs,
                   opStale, lastAuthResp, lastAuthErr, opArgs, sleeps,
                   opLimit>>

InitMap == Constructed({DefaultConfig}, 0) /\ NoLookup
            /\ NoDownload /\ Background /\ OneGoroutine

NextMap ==
    \E o \in Ops : \E a \in MapArgs(o) : \E resp \in MapResponses :
        Respond(o, a, resp)

SpecMap == InitMap /\ [][NextMap]_vars

\* C13 (as claimed): a resource call answered with HTTP 401 produces, for that
\* attempt, an AuthError with status 401.
C13_Resource401IsAuthError ==
    (input.kind = "response" /\ input.resp.kind = "http"
        /\ input.resp.status = 401)
        => /\ output.err.type = "AuthError"
           /\ output.err.StatusCode = 401

\* ------------------------------------------------------------------
\* An identity endpoint that rejects every exchange: one operation of a
\* client with credentials, whose attempts all fail in authenticate.

RejectResponses ==
    {[kind |-> "http", status |-> s, body |-> b] :
        s \in RejectStatuses, b \in RejectBodies}

CredentialConfigs ==
    {NewClient(c) : c \in [Username : {"user"}, Password : {"pass"},
                           UserAgent : {""},
                           BaseURL : {""}, Timeout : {0},
                           MaxRetries : -1 .. MaxRetriesCfg,
                           RetryDelay : {0, 1}]}

InitReject == Constructed(CredentialConfigs, 1) /\ NoLookup
            /\ NoDownload /\ Background /\ OneGoroutine

NextReject ==
    \/ \E o \in Ops, gap \in Gaps : \E a \in ArgsOf(o) : Call(o, a, gap)
    \/ \E r \in RejectResponses : Invoke(r)
    \/ Check
    \/ Exhausted

SpecReject == InitReject /\ [][NextReject]_vars

\* C14 (as claimed): when the identity endpoint rejects the exchange on every
\* attempt of an operation, the error returned to the caller is an AuthError
\* (recognisable by a type assertion) that carries the status code and the
\* body of the rejected exchange.
C14_AuthErrorReturned ==
    (ReturnedError /\ calls > 0)
        => /\ result.type = "AuthError"
           /\ result.StatusCode \in RejectStatuses
           /\ result.Message \in RejectBodies

\* C15 (as claimed): for list products and get product, a response whose
\* status is neither 2xx nor (get product) 404 yields a generic error with
\* the status and body, a 200 response without a decoded body yields an
\* error, no product data is returned in these cases, and a 2xx response
\* yields no error other than the one for a missing body.
C15_Non2xxOrMissingBody ==
    (input.kind = "response" /\ input.op \in {"ListProducts", "GetProduct"}
        /\ input.resp.kind = "http")
        => LET s == input.resp.status
               is2xx == s >= 200 /\ s <= 299
           IN  /\ (~is2xx /\ ~(input.op = "GetProduct" /\ s = 404))
                    => /\ output.err = [type |-> "errorString",
                                        msg |-> "unexpected status",
                                        args |-> <<s, input.resp.body>>]
                       /\ output.data = "nil"
               /\ (s = 200 /\ ~input.resp.json200)
                    => output.err.type # "nil" /\ output.data = "nil"
               /\ (is2xx /\ output.err.type # "nil")
                    => /\ ~input.resp.json200
                       /\ output.err = [type |-> "errorString",
                                        msg |-> "empty response body",
                                        args |-> <<>>]

\* C15 (amended): for list products and get product, a response whose status
\* is not 200 and not (get product) 404, a 2xx status other than 200
\* included, yields a generic error with the status and body; a 200
\* response without a decoded body yields the empty-body error; no product
\* data is returned in these cases; a 200 response with a decoded body
\* yields the data and no error.
C15_Non200OrMissingBody ==
    (input.kind = "response" /\ input.op \in {"ListProducts", "GetProduct"}
        /\ input.resp.kind = "http")
        => LET s == input.resp.status
           IN  /\ (s # 200 /\ ~(input.op = "GetProduct" /\ s = 404))
                    => /\ output.err = [type |-> "errorString",
                                        msg |-> "unexpected status",
                                        args |-> <<s, input.resp.body>>]
                       /\ output.data = "nil"
               /\ (s = 200 /\ ~input.resp.json200)
                    => /\ output.err = [type |-> "errorString",
                                        msg |-> "empty response body",
                                        args |-> <<>>]
                       /\ output.data = "nil"
               /\ (s = 200 /\ input.resp.json200)
                    => output.err.type = "nil" /\ output.data = "converted"

\* C15 witness: list products was answered 201 with a body, and the closure
\* returned the status error and no products.
C15_Witness ==
    /\ input.kind = "response" /\ input.op = "ListProducts"
    /\ input.resp.kind = "http" /\ input.resp.status = 201
    /\ input.resp.body = "raw"
    /\ output.err.type = "errorString"
    /\ output.err.msg = "unexpected status"
    /\ output.data = "nil"

\* ------------------------------------------------------------------
\* A resource that is persistently missing: one GetProduct or DownloadFile
\* whose every resource request is answered 404; the identity endpoint,
\* where it is used, issues a token.

NotFoundResponses == {resp \in ApiResponses :
                         resp.kind = "http" /\ resp.status = 404}

GrantResponses == {[kind |-> "http", status |-> 200,
                    body |-> TokenJSON("tokA", 3600)]}

InitNotFound == Constructed(BackoffConfigs, 1) /\ NoLookup
            /\ NoDownload /\ Background /\ OneGoroutine

NextNotFound ==
    \/ \E o \in {"GetProduct", "DownloadFile"}, gap \in Gaps :
           \E a \in ArgsOf(o) : Call(o, a, gap)
    \/ \E r \in GrantResponses : Invoke(r)
    \/ \E resp \in NotFoundResponses : Send(resp)
    \/ Check
    \/ Exhausted

SpecNotFound == InitNotFound /\ [][NextNotFound]_vars

\* C16: a Not-Found error on attempt k is followed by attempt k+1 like any
\* other error: against a resource that answers 404 every time, an
\* operation makes exactly MaxRetries+1 resource requests and sleeps the
\* whole back-off schedule before the caller sees the failure.
C16_NotFoundIsRetried ==
    /\ pc = "check"
         => /\ err.type = "NotFoundError"
            /\ attempt <= config.MaxRetries
            /\ reqs = attempt + 1
    /\ (pc = "idle" /\ nOps > 0)
         => /\ result.type = "wrapError"
            /\ result.inner.type = "NotFoundError"
            /\ reqs = config.MaxRetries + 1
            /\ fails = config.MaxRetries + 1
            /\ sleeps = [k \in 1 .. config.MaxRetries |->
                            config.RetryDelay * k]

\* C16 witness: with three retries and a delay of 3 s, GetProduct asked four
\* times for a missing product, slept 3, 6 and 9 seconds, and failed.
C16_Witness ==
    /\ pc = "idle" /\ nOps = 1 /\ op = "GetProduct"
    /\ config.MaxRetries = 3 /\ config.RetryDelay = 3
    /\ reqs = 4 /\ sleeps = <<3, 6, 9>>
    /\ result.type = "wrapError" /\ result.inner.type = "NotFoundError"

\* C17 (as claimed): every request sent to the resource API carries the
\* configured User-Agent; with credentials configured it also carries
\* Authorization: Bearer <token> with the non-empty token the client holds
\* after ensureValidToken succeeded, never a missing header or an empty
\* bearer value.
C17_BearerTokenOnRequests ==
    pc = "send"
        => /\ req.sent
           /\ req.UserAgent = config.UserAgent
           /\ (config.Username # "" /\ config.Password # "")
                => /\ req.Authorization = <<"Bearer ", token>>
                   /\ token # ""

\* ------------------------------------------------------------------
\* Derived lookups: GetLatestDelivery and GetProductByName, as functions of
\* what GetProduct and ListProducts returned to them.

MaxDeliveries == 3
MaxProducts == 2

NoDelivery == [nil |-> TRUE]
NoProduct == [nil |-> TRUE]

\* Publication timestamps, as instants.
Times == {1, 2, 3}

\* A product's deliveries: the delivery at position i has DeliveryID i.
DeliveryLists ==
    UNION {{[i \in 1 .. n |->
                [nil |-> FALSE, DeliveryID |-> i,
                 DeliveryPublicationDatetime |-> ts[i]]] :
               ts \in [1 .. n -> Times]} : n \in 0 .. MaxDeliveries}

\* The errors GetProduct and ListProducts return: whatever the last attempt
\* failed with, wrapped by retryableRequest.
OpErrors ==
    {RetriesExhausted(DefaultConfig, e) :
        e \in {TransportError, NotFoundError("product", Decimal(3)),
               Errorf("unexpected status", <<500, "raw">>),
               Errorf("empty response body", <<>>)}}

\* time.Time.After: t is later than u.
AfterOrEqual(t, u) == t >= u
After(t, u) == t > u

\* The loop of GetLatestDelivery over the deliveries after the first.
RECURSIVE scanLatest(_, _)
scanLatest(latest, rest) ==
    IF rest = <<>> THEN latest
    ELSE scanLatest(IF After(Head(rest).DeliveryPublicationDatetime,
                             latest.DeliveryPublicationDatetime)
                    THEN Head(rest) ELSE latest,
                    Tail(rest))

GetLatestDeliveryNilOnEmpty(productID, got) ==
    IF got.err.type # "nil"
    THEN [delivery |-> NoDelivery, err |-> got.err]
    ELSE IF Len(got.product.Deliveries) = 0
    THEN [delivery |-> NoDelivery, err |-> Nil]
    ELSE [delivery |-> scanLatest(got.product.Deliveries[1],
                                  Tail(got.product.Deliveries)),
          err |-> Nil]

\* got is what GetProduct returned: [product, err].
GetLatestDelivery(productID, got) ==
    IF got.err.type # "nil"
    THEN [delivery |-> NoDelivery, err |-> got.err]
    ELSE IF Len(got.product.Deliveries) = 0
    THEN [delivery |-> NoDelivery,
          err |-> NotFoundError("delivery",
                      <<"product ">> \o Decimal(productID)
                          \o <<" has no deliveries">>)]
    ELSE [delivery |-> scanLatest(got.product.Deliveries[1],
                                  Tail(got.product.Deliveries)),
          err |-> Nil]

\* Product names, as sequences of ASCII codes: "EP", "ep", "Ep", "E", "e",
\* "EPE", "`P" and "@P" ("@" and "`" are 32 apart and are not letters).
Names == {<<69, 80>>, <<101, 112>>, <<69, 112>>, <<69>>, <<101>>,
          <<69, 80, 69>>, <<96, 80>>, <<64, 80>>}

\* strings.EqualFold on ASCII: equal under simple case folding.
EqualExact(s, t) == s = t
RECURSIVE EqualFold(_, _)
EqualFold(s, t) ==
    IF s = <<>> \/ t = <<>> THEN s = <<>> /\ t = <<>>
    ELSE LET sr == IF Head(s) < Head(t) THEN Head(s) ELSE Head(t)
             tr == IF Head(s) < Head(t) THEN Head(t) ELSE Head(s)
         IN  /\ \/ sr = tr
                \/ sr >= 65 /\ sr <= 90 /\ tr = sr + 32
             /\ EqualFold(Tail(s), Tail(t))

\* Listings: the product at position i has ID i.
ProductLists ==
    UNION {{[i \in 1 .. n |-> [nil |-> FALSE, ID |-> i, Name |-> ns[i]]] :
               ns \in [1 .. n -> Names]} : n \in 0 .. MaxProducts}

\* The loop of GetProductByName: the first product with a matching name.
RECURSIVE firstMatch(_, _)
firstMatch(products, name) ==
    IF products = <<>> THEN NoProduct
    ELSE IF EqualFold(Head(products).Name, name) THEN Head(products)
    ELSE firstMatch(Tail(products), name)

\* listed is what ListProducts returned: [products, err].
GetProductByName(name, listed) ==
    IF listed.err.type # "nil"
    THEN [product |-> NoProduct, err |-> listed.err]
    ELSE LET p == firstMatch(listed.products, name)
         IN  IF p.nil
             THEN [product |-> NoProduct,
                   err |-> NotFoundError("product", name)]
             ELSE [product |-> p, err |-> Nil]

LookupInputs ==
    {[kind |-> "GetLatestDelivery", productID |-> 3,
      got |-> [product |-> [nil |-> TRUE], err |-> e]] : e \in OpErrors}
    \cup
    {[kind |-> "GetLatestDelivery", productID |-> 3,
      got |-> [product |-> [nil |-> FALSE, ID |-> 3, Deliveries |-> ds],
               err |-> Nil]] : ds \in DeliveryLists}
    \cup
    {[kind |-> "GetProductByName", name |-> n,
      listed |-> [products |-> <<>>, err |-> e]] :
        n \in Names, e \in OpErrors}
    \cup
    {[kind |-> "GetProductByName", name |-> n,
      listed |-> [products |-> ps, err |-> Nil]] :
        n \in Names, ps \in ProductLists}

InitLookup ==
    /\ Constructed({DefaultConfig}, 0)
    /\ input \in LookupInputs
    /\ output = NoOutput
    /\ NoDownload /\ Background /\ OneGoroutine

LatestDelivery ==
    /\ input.kind = "GetLatestDelivery"
    /\ output = NoOutput
    /\ output' = [kind |-> "returned"]
                    @@ GetLatestDelivery(input.productID, input.got)
    /\ UNCHANGED <<dlVars, ctxDone, goroutines>>
    /\ UNCHANGED <<config, token, tokenExpiry, now, pc, op, attempt, lastErr,
                   err, req, result, nOps, calls, fails, authCalls, reqs,
                   opStale, lastAuthResp, lastAuthErr, opArgs, sleeps,
                   opLimit, input>>

ProductByName ==
    /\ input.kind = "GetProductByName"
    /\ output = NoOutput
    /\ output' = [kind |-> "returned"]
                    @@ GetProductByName(input.name, input.listed)
    /\ UNCHANGED <<dlVars, ctxDone, goroutines>>
    /\ UNCHANGED <<config, token, tokenExpiry, now, pc, op, attempt, lastErr,
                   err, req, result, nOps, calls, fails, authCalls, reqs,
                   opStale, lastAuthResp, lastAuthErr, opArgs, sleeps,
                   opLimit, input>>

NextLookup == LatestDelivery \/ ProductByName

SpecLookup == InitLookup /\ [][NextLookup]_vars

\* C18: for a product with a non-empty delivery list, GetLatestDelivery
\* returns a delivery of the list whose publication timestamp is the
\* maximum over the list, and among several with that maximum the one that
\* comes first in the list.
C18_LatestIsFirstMaximum ==
    (input.kind = "GetLatestDelivery" /\ output.kind = "returned"
        /\ input.got.err.type = "nil"
        /\ Len(input.got.product.Deliveries) > 0)
        => LET ds == input.got.product.Deliveries
           IN  /\ output.err.type = "nil"
               /\ \E i \in 1 .. Len(ds) :
                    /\ output.delivery = ds[i]
                    /\ \A j \in 1 .. Len(ds) :
                         /\ ds[j].DeliveryPublicationDatetime
                              <= ds[i].DeliveryPublicationDatetime
                         /\ ds[j].DeliveryPublicationDatetime
                              = ds[i].DeliveryPublicationDatetime => i <= j

\* C18 witness: of three deliveries dated 2, 3, 3 the second was returned.
C18_Witness ==
    /\ input.kind = "GetLatestDelivery" /\ output.kind = "returned"
    /\ input.got.err.type = "nil"
    /\ Len(input.got.product.Deliveries) = 3
    /\ input.got.product.Deliveries[1].DeliveryPublicationDatetime = 2
    /\ input.got.product.Deliveries[2].DeliveryPublicationDatetime = 3
    /\ input.got.product.Deliveries[3].DeliveryPublicationDatetime = 3
    /\ output.delivery.DeliveryID = 2

\* C19: when GetProduct succeeds with zero deliveries, GetLatestDelivery
\* returns a NotFoundError with Resource "delivery" and a nil delivery; when
\* GetProduct fails, it returns that error unchanged and a nil delivery; it
\* never returns a nil delivery together with a nil error.
C19_NoDeliveryIsNotFound ==
    (input.kind = "GetLatestDelivery" /\ output.kind = "returned")
        => /\ (input.got.err.type = "nil"
                 /\ input.got.product.Deliveries = <<>>)
                => /\ output.delivery = [nil |-> TRUE]
                   /\ output.err.type = "NotFoundError"
                   /\ output.err.Resource = "delivery"
           /\ input.got.err.type # "nil"
                => /\ output.delivery = [nil |-> TRUE]
                   /\ output.err = input.got.err
           /\ ~(output.delivery = [nil |-> TRUE] /\ output.err.type = "nil")

\* C19 witness: product 3 came back without deliveries and the lookup
\* returned the NotFoundError for it.
C19_Witness ==
    /\ input.kind = "GetLatestDelivery" /\ output.kind = "returned"
    /\ input.got.err.type = "nil"
    /\ input.got.product.Deliveries = <<>>
    /\ output.delivery = [nil |-> TRUE]
    /\ output.err = [type |-> "NotFoundError", Resource |-> "delivery",
                     ID |-> <<"product ", "3", " has no deliveries">>]

\* Two names are the same ignoring letter case ("E" is 69, "P" is 80, their
\* lower-case forms are 32 higher).
LowerOf(ch) == IF ch \in {69, 80} THEN ch + 32 ELSE ch
SameIgnoringCase(s, t) ==
    /\ Len(s) = Len(t)
    /\ \A k \in 1 .. Len(s) : LowerOf(s[k]) = LowerOf(t[k])

\* C20: GetProductByName returns the first product of the listing whose name
\* equals the searched name ignoring letter case; when no name does (the
\* searched name is a prefix of a product name, or matches nothing), it
\* returns a NotFoundError with Resource "product" and the searched name as
\* ID, and no product.
C20_FirstCaseInsensitiveMatch ==
    (input.kind = "GetProductByName" /\ output.kind = "returned"
        /\ input.listed.err.type = "nil")
        => LET ps == input.listed.products
               matches == {i \in 1 .. Len(ps) :
                              SameIgnoringCase(ps[i].Name, input.name)}
           IN  IF matches # {}
               THEN /\ output.err.type = "nil"
                    /\ \E i \in matches :
                         /\ output.product = ps[i]
                         /\ \A j \in matches : i <= j
               ELSE /\ output.product = [nil |-> TRUE]
                    /\ output.err = [type |-> "NotFoundError",
                                     Resource |-> "product",
                                     ID |-> input.name]

\* C20 witness: the listing is "E", "EP"; the search for "ep" passed over
\* the product whose name it only extends and returned the second.
C20_Witness ==
    /\ input.kind = "GetProductByName" /\ output.kind = "returned"
    /\ input.listed.err.type = "nil"
    /\ Len(input.listed.products) = 2
    /\ input.listed.products[1].Name = <<69>>
    /\ input.listed.products[2].Name = <<69, 80>>
    /\ input.name = <<101, 112>>
    /\ output.err.type = "nil"
    /\ output.product.ID = 2

\* ------------------------------------------------------------------
\* Downloads: DownloadFileWithProgress on a client without credentials, one
\* step per Read of io.Copy.  A body is the sequence of its bytes; byte i of
\* a body has the value i.

MaxBody == 2          \* largest number of bytes in a response body

Calls == {1, 2}

BodyOf(n) == [i \in 1 .. n |-> i]

\* resp.ContentLength when the length is not advertised.
UnknownLength == -1

\* Answers to the download request: no answer, 404, or 200 with a body whose
\* length is advertised or not.
DownloadResponses ==
    {[kind |-> "transport"],
     [kind |-> "http", status |-> 404, body |-> "raw", json200 |-> FALSE,
      stream |-> "ok"]}
    \cup
    UNION {{[kind |-> "http", status |-> 200, data |-> BodyOf(n),
              length |-> l] : l \in {n, UnknownLength}} :
              n \in 0 .. MaxBody}

\* What one Read on resp.Body may return when n bytes and the error e come
\* back: at most what is left, and io.EOF only with or after the last byte.
ReadErrors == {"nil", "EOF", "unexpected EOF"}
CanRead(body, n, e) ==
    /\ n \in 0 .. Len(body.data)
    /\ e = "EOF" => n = Len(body.data)

NoReader == [nil |-> TRUE]
NoBody == [data |-> <<>>, length |-> 0, reads |-> 0, consumed |-> 0,
           n |-> 0, err |-> "nil"]

\* resp.Body.Read: hands out the next n bytes; the body counts the Reads
\* made on it and the bytes handed out, and keeps what the latest returned.
bodyRead(body, n, e) ==
    [n |-> n, err |-> e, bytes |-> SubSeq(body.data, 1, n),
     body |-> [body EXCEPT !.data = SubSeq(@, n + 1, Len(@)),
                           !.reads = @ + 1,
                           !.consumed = @ + n,
                           !.n = n,
                           !.err = e]]

\* progressReader.Read: one Read on the wrapped reader, the count added to
\* current, the callback invoked if there is one, count and error returned.
progressReaderReadSwallowsError(pr, body, n, e) ==
    LET r == bodyRead(body, n, e)
        current == pr.current + r.n
    IN  [n |-> r.n, err |-> IF r.err = "nil" THEN "nil" ELSE "EOF",
         bytes |-> r.bytes, body |-> r.body,
         pr |-> [pr EXCEPT !.current = current],
         called |-> IF pr.hasFn THEN <<[current |-> current,
                                        total |-> pr.total]>>
                    ELSE <<>>]

progressReaderReadSkipsOnError(pr, body, n, e) ==
    LET r == bodyRead(body, n, e)
        current == pr.current + r.n
    IN  [n |-> r.n, err |-> r.err, bytes |-> r.bytes, body |-> r.body,
         pr |-> [pr EXCEPT !.current = current],
         called |-> IF pr.hasFn /\ r.err = "nil"
                    THEN <<[current |-> current, total |-> pr.total]>>
                    ELSE <<>>]

progressReaderReadSkipsEmpty(pr, body, n, e) ==
    LET r == bodyRead(body, n, e)
        current == pr.current + r.n
    IN  [n |-> r.n, err |-> r.err, bytes |-> r.bytes, body |-> r.body,
         pr |-> [pr EXCEPT !.current = current],
         called |-> IF pr.hasFn /\ r.n > 0
                    THEN <<[current |-> current, total |-> pr.total]>>
                    ELSE <<>>]

progressReaderRead(pr, body, n, e) ==
    LET r == bodyRead(body, n, e)
        current == pr.current + r.n
    IN  [n |-> r.n, err |-> r.err, bytes |-> r.bytes, body |-> r.body,
         pr |-> [pr EXCEPT !.current = current],
         called |-> IF pr.hasFn THEN <<[current |-> current,
                                        total |-> pr.total]>>
                    ELSE <<>>]

\* The reader io.Copy reads from: resp.Body itself, or the progressReader
\* around it when a callback was given.
readerRead(pr, body, n, e) ==
    IF pr.nil
    THEN LET r == bodyRead(body, n, e)
         IN  [n |-> r.n, err |-> r.err, bytes |-> r.bytes, body |-> r.body,
              pr |-> pr, called |-> <<>>]
    ELSE progressReaderRead(pr, body, n, e)

NotStarted ==
    [pc |-> "idle", attempt |-> 0, lastErr |-> Nil, err |-> Nil,
     result |-> NoResult, hasFn |-> FALSE, emptied |-> FALSE]

\* The caller starts DownloadFileWithProgress, with or without a callback.
StartDownload(c, withFn) ==
    /\ c \in DOMAIN downloads
    /\ downloads[c].pc = "idle"
    /\ downloads' = [downloads EXCEPT ![c] =
                        [@ EXCEPT !.pc = "request", !.hasFn = withFn]]
    /\ UNCHANGED <<readers, bodies, sinks, callbacks, lastRead>>
    /\ UNCHANGED <<callerVars, ctxDone, goroutines>>

\* The end of an attempt of call c whose closure returned e: the rest of the
\* loop body of retryableRequest.
AfterAttempt(d, e, c) ==
    IF e.type = "nil"
    THEN [d EXCEPT !.pc = "returned", !.err = e, !.result = Nil]
    ELSE [d EXCEPT !.pc = "request", !.err = e,
                   !.lastErr = NextLastErr(d.lastErr, e),
                   !.attempt = NextAttempt(d.attempt, e, c),
                   !.emptied = FALSE]

\* An attempt of call c: the request is answered by resp.  A 200 answer
\* leaves the closure in io.Copy, with a progressReader if there is a
\* callback; any other answer ends the attempt.
Fetch(c, resp) ==
    /\ c \in DOMAIN downloads
    /\ downloads[c].pc = "request"
    /\ LoopCond(downloads[c].attempt, config)
    /\ IF resp.kind = "http" /\ resp.status = 200
       THEN /\ downloads' = [downloads EXCEPT ![c].pc = "copy"]
            /\ bodies' = [bodies EXCEPT ![c] =
                            [data |-> resp.data, length |-> resp.length,
                             reads |-> 0, consumed |-> 0, n |-> 0,
                             err |-> "nil"]]
            /\ readers' = [readers EXCEPT ![c] =
                            IF downloads[c].hasFn
                            THEN [nil |-> FALSE, total |-> resp.length,
                                  current |-> 0, hasFn |-> TRUE]
                            ELSE NoReader]
       ELSE /\ downloads' = [downloads EXCEPT ![c] =
                  AfterAttempt(@, DownloadFileWithProgress(3, 12345, 67890,
                                                           resp), config)]
            /\ UNCHANGED <<bodies, readers>>
    /\ UNCHANGED <<sinks, callbacks, lastRead>>
    /\ UNCHANGED <<callerVars, ctxDone, goroutines>>

\* The writer call c copies to: the dst the caller passed to that call.
dstShared(c) == 1
dst(c) == c

\* One round of io.Copy for call c: a Read that returns n bytes and the
\* error e, then the Write of those bytes to dst, which succeeds or not.
\* An attempt sees at most one Read that returns 0 bytes and no error.
CopyRound(c, n, e, written) ==
    /\ c \in DOMAIN downloads
    /\ downloads[c].pc = "copy"
    /\ CanRead(bodies[c], n, e)
    /\ (n = 0 /\ e = "nil") => ~downloads[c].emptied
    /\ n = 0 => written
    /\ LET r == readerRead(readers[c], bodies[c], n, e)
           copyErr == IF ~written THEN CopyError
                      ELSE IF r.err \in {"nil", "EOF"} THEN Nil
                      ELSE CopyError
           over == ~written \/ r.err # "nil"
       IN  /\ readers' = [readers EXCEPT ![c] = r.pr]
           /\ bodies' = [bodies EXCEPT ![c] = r.body]
           /\ callbacks' = [callbacks EXCEPT ![c] =
                  @ \o [i \in 1 .. Len(r.called) |->
                           [attempt |-> downloads[c].attempt,
                            current |-> r.called[i].current,
                            total |-> r.called[i].total]]]
           /\ sinks' = [sinks EXCEPT ![dst(c)] =
                           IF written THEN @ \o r.bytes ELSE @]
           /\ lastRead' = [call |-> c, n |-> r.n, err |-> r.err,
                           wrapped |-> ~readers[c].nil]
           /\ downloads' = [downloads EXCEPT ![c] =
                  IF over THEN AfterAttempt(@, copyErr, config)
                  ELSE [@ EXCEPT !.emptied = @ \/ n = 0]]
    /\ UNCHANGED <<callerVars, ctxDone, goroutines>>

\* The loop of call c ran out of attempts.
GiveUp(c) ==
    /\ c \in DOMAIN downloads
    /\ downloads[c].pc = "request"
    /\ ~LoopCond(downloads[c].attempt, config)
    /\ downloads' = [downloads EXCEPT ![c] =
          [@ EXCEPT !.pc = "returned",
                    !.result = RetriesExhausted(config,
                                               downloads[c].lastErr)]]
    /\ UNCHANGED <<readers, bodies, sinks, callbacks, lastRead>>
    /\ UNCHANGED <<callerVars, ctxDone, goroutines>>

\* A client without credentials that retries once, and the download calls
\* cs made on it.
DownloadConfig ==
    NewClient([Username |-> "", Password |-> "", UserAgent |-> "",
               BaseURL |-> "", Timeout |-> 0,
               MaxRetries |-> 1, RetryDelay |-> 0])

Downloading(cs) ==
    /\ Constructed({DownloadConfig}, 0)
    /\ NoLookup /\ Background /\ OneGoroutine
    /\ downloads = [c \in cs |-> NotStarted]
    /\ readers = [c \in cs |-> NoReader]
    /\ bodies = [c \in cs |-> NoBody]
    /\ sinks = [c \in cs |-> <<>>]
    /\ callbacks = [c \in cs |-> <<>>]
    /\ lastRead = NoRead

InitDownload == Downloading({1})

NextDownload ==
    \/ \E c \in Calls, withFn \in BOOLEAN : StartDownload(c, withFn)
    \/ \E c \in Calls, resp \in DownloadResponses : Fetch(c, resp)
    \/ \E c \in Calls, n \in 0 .. MaxBody, e \in ReadErrors,
          written \in BOOLEAN : CopyRound(c, n, e, written)
    \/ \E c \in Calls : GiveUp(c)

SpecDownload == InitDownload /\ [][NextDownload]_vars

\* C21: a download with a callback succeeds on a body of N bytes whose
\* advertised length is N: whatever the reads returned, the callback was
\* invoked at least once during the successful attempt, every invocation of
\* that attempt reported total = N, and the last invocation before the
\* return reported cumulative = N.
C21_FinalProgressIsTotal ==
    \A c \in DOMAIN downloads :
        (downloads[c].pc = "returned" /\ downloads[c].result.type = "nil"
            /\ downloads[c].hasFn
            /\ bodies[c].length = bodies[c].consumed + Len(bodies[c].data))
            => LET N == bodies[c].length
                   cbs == callbacks[c]
               IN  /\ cbs # <<>>
                   /\ cbs[Len(cbs)].attempt = downloads[c].attempt
                   /\ cbs[Len(cbs)].current = N
                   /\ cbs[Len(cbs)].total = N
                   /\ \A i \in 1 .. Len(cbs) :
                        cbs[i].attempt = downloads[c].attempt
                            => cbs[i].total = N

\* C21 witness: a body of two bytes with advertised length 2 arrived in two
\* reads of one byte and a final empty read; the callback saw 1, 2, 2.
C21_Witness ==
    /\ downloads[1].pc = "returned" /\ downloads[1].result.type = "nil"
    /\ downloads[1].attempt = 0
    /\ bodies[1].length = 2 /\ bodies[1].reads = 3
    /\ callbacks[1] = <<[attempt |-> 0, current |-> 1, total |-> 2],
                        [attempt |-> 0, current |-> 2, total |-> 2],
                        [attempt |-> 0, current |-> 2, total |-> 2]>>

\* C22 (as claimed): over all callback invocations within one call of
\* DownloadFileWithProgress the cumulative value never decreases, and it
\* never exceeds the advertised total when that is known and the server
\* sends exactly that many bytes.
C22_ProgressMonotonic ==
    \A c \in DOMAIN downloads :
        LET cbs == callbacks[c]
        IN  /\ \A i \in 1 .. Len(cbs) - 1 :
                 cbs[i].current <= cbs[i + 1].current
            /\ \A i \in 1 .. Len(cbs) :
                 cbs[i].total >= 0 => cbs[i].current <= cbs[i].total

\* Within one attempt the cumulative value never decreases and stays within
\* a known total.
ProgressMonotonicPerAttempt ==
    \A c \in DOMAIN downloads :
        LET cbs == callbacks[c]
        IN  /\ \A i \in 1 .. Len(cbs) - 1 :
                 cbs[i].attempt = cbs[i + 1].attempt
                    => cbs[i].current <= cbs[i + 1].current
            /\ \A i \in 1 .. Len(cbs) :
                 cbs[i].total >= 0 => cbs[i].current <= cbs[i].total

\* C23: each Read on the progress-observing stream performs exactly one Read
\* on the wrapped body, returns that Read's byte count and error, and
\* invokes the callback exactly once, also for an empty read and for a read
\* that returned an error, with cumulative = the bytes read so far and
\* total = the advertised length the reader was constructed with.
C23_OneReadOneCallback ==
    [][\A c \in DOMAIN downloads :
          (downloads[c].pc = "copy" /\ ~readers[c].nil
              /\ bodies'[c] # bodies[c])
              => /\ bodies'[c].reads = bodies[c].reads + 1
                 /\ lastRead'.call = c
                 /\ lastRead'.n = bodies'[c].n
                 /\ lastRead'.n = bodies'[c].consumed - bodies[c].consumed
                 /\ lastRead'.err = bodies'[c].err
                 /\ Len(callbacks'[c]) = Len(callbacks[c]) + 1
                 /\ SubSeq(callbacks'[c], 1, Len(callbacks[c]))
                      = callbacks[c]
                 /\ callbacks'[c][Len(callbacks'[c])].current
                      = bodies'[c].consumed
                 /\ callbacks'[c][Len(callbacks'[c])].total
                      = bodies[c].length
      ]_vars

\* C23 witness: a Read on the wrapped stream returned 0 bytes and an error,
\* and the callback has been invoked for it.
C23_Witness ==
    /\ lastRead.call = 1 /\ lastRead.wrapped
    /\ lastRead.n = 0 /\ lastRead.err = "unexpected EOF"
    /\ bodies[1].reads = 2
    /\ Len(callbacks[1]) = 2
    /\ callbacks[1][2].current = 1 /\ callbacks[1][2].total = 2

\* ------------------------------------------------------------------
\* Cancellation: the context of the operation in progress may be cancelled
\* (or pass its deadline) at any point of the operation.

\* The context is done: from now on every request made with it fails in the
\* transport, without an answer.
Cancel ==
    /\ pc # "idle"
    /\ ~ctxDone
    /\ ctxDone' = TRUE
    /\ UNCHANGED <<callerVars, dlVars, goroutines>>

\* A request made with the context gets no answer once the context is done.
WithContext(answer) == ctxDone => answer.kind = "transport"

\* An attempt starts; the exchange with the identity endpoint, if one is
\* made, uses the context.
InvokeCtx(r) == WithContext(r) /\ Invoke(r)

\* The resource request is made with the context.
SendCtx(resp) == WithContext(resp) /\ Send(resp)

InitCancel ==
    /\ Constructed({NewClient(c) : c \in RawConfigs}, 1)
    /\ NoLookup /\ NoDownload /\ Background /\ OneGoroutine

NextCancel ==
    \/ \E o \in Ops, gap \in Gaps : \E a \in ArgsOf(o) : Call(o, a, gap)
    \/ Cancel
    \/ \E r \in AuthResponses : InvokeCtx(r)
    \/ \E resp \in ApiResponses : SendCtx(resp)
    \/ Check
    \/ Exhausted

SpecCancel == InitCancel /\ [][NextCancel]_vars

\* C24 (as claimed): once the context of an operation in progress is done,
\* the attempt in flight ends and the operation returns: the retry loop
\* neither sleeps a back-off delay nor starts another attempt.
C24_NoRetryAfterCancel ==
    [][(ctxDone /\ pc = "check")
          => /\ sleeps' = sleeps
             /\ now' = now
             /\ calls' = calls
             /\ pc' = "idle"]_vars

\* ------------------------------------------------------------------
\* Goroutines sharing one client: the request decoration of each, one step
\* per read or write of the shared token and expiry (nothing in Client is
\* locked).  Time stands still, so a token once stored stays fresh.

Goroutines == {1, 2}

Resting == [pc |-> "idle", ops |-> 0, tok |-> "", exp |-> ZeroTime,
            sawToken |-> "", wrote |-> 0, bearer |-> NoHeader]

RaceConfig ==
    NewClient([Username |-> "user", Password |-> "pass", UserAgent |-> "",
               BaseURL |-> "", Timeout |-> 0,
               MaxRetries |-> 0, RetryDelay |-> 0])

RaceResponses ==
    {[kind |-> "http", status |-> 401, body |-> Malformed],
     [kind |-> "http", status |-> 200, body |-> TokenJSON("tokA", 3600)],
     [kind |-> "http", status |-> 200, body |-> TokenJSON("tokB", 3600)]}

\* Goroutine g calls an operation; its request editor runs.
Begin(g) ==
    /\ g \in DOMAIN goroutines
    /\ goroutines[g].pc = "idle"
    /\ goroutines[g].ops < MaxOps
    /\ goroutines' = [goroutines EXCEPT ![g] =
                         [@ EXCEPT !.pc = "check", !.ops = @ + 1]]
    /\ UNCHANGED <<callerVars, dlVars, ctxDone>>

\* ensureValidToken, left operand of the condition: reads c.token.
ReadToken(g) ==
    /\ g \in DOMAIN goroutines
    /\ goroutines[g].pc = "check"
    /\ goroutines' = [goroutines EXCEPT ![g] =
          [@ EXCEPT !.tok = token, !.sawToken = token,
                    !.pc = IF token # "" THEN "readExpiry" ELSE "auth"]]
    /\ UNCHANGED <<callerVars, dlVars, ctxDone>>

\* ensureValidToken, right operand of the condition: reads c.tokenExpiry.
ReadExpiry(g) ==
    /\ g \in DOMAIN goroutines
    /\ goroutines[g].pc = "readExpiry"
    /\ goroutines' = [goroutines EXCEPT ![g] =
          [@ EXCEPT !.pc = IF TokenValid(goroutines[g].tok, tokenExpiry, now)
                           THEN "header" ELSE "auth"]]
    /\ UNCHANGED <<callerVars, dlVars, ctxDone>>

\* authenticate up to the assignment of c.token: the identity endpoint
\* answers r; a failure ends the attempt.
Exchange(g, r) ==
    /\ g \in DOMAIN goroutines
    /\ goroutines[g].pc = "auth"
    /\ LET a == authenticate(r, token, tokenExpiry, now)
       IN  IF a.err.type # "nil"
           THEN /\ goroutines' = [goroutines EXCEPT ![g].pc = "idle"]
                /\ UNCHANGED token
           ELSE /\ token' = a.token
                /\ goroutines' = [goroutines EXCEPT ![g] =
                      [@ EXCEPT !.pc = "setExpiry", !.exp = a.tokenExpiry]]
    /\ UNCHANGED <<config, tokenExpiry, now, pc, op, attempt, lastErr, err,
                   req, result, nOps, calls, fails, authCalls, reqs, opStale,
                   lastAuthResp, lastAuthErr, opArgs, sleeps, opLimit, input,
                   output>>
    /\ UNCHANGED <<dlVars, ctxDone>>

\* authenticate, the assignment of c.tokenExpiry.
SetExpiry(g) ==
    /\ g \in DOMAIN goroutines
    /\ goroutines[g].pc = "setExpiry"
    /\ tokenExpiry' = goroutines[g].exp
    /\ goroutines' = [goroutines EXCEPT ![g] =
                         [@ EXCEPT !.pc = "header", !.wrote = @ + 1]]
    /\ UNCHANGED <<config, token, now, pc, op, attempt, lastErr, err,
                   req, result, nOps, calls, fails, authCalls, reqs, opStale,
                   lastAuthResp, lastAuthErr, opArgs, sleeps, opLimit, input,
                   output>>
    /\ UNCHANGED <<dlVars, ctxDone>>

\* authRequestEditor sets the Authorization header from c.token; the request
\* is sent and the operation ends.
SetHeader(g) ==
    /\ g \in DOMAIN goroutines
    /\ goroutines[g].pc = "header"
    /\ goroutines' = [goroutines EXCEPT ![g] =
                         [@ EXCEPT !.pc = "idle", !.bearer = Bearer(token)]]
    /\ UNCHANGED <<callerVars, dlVars, ctxDone>>

\* One goroutine uses the client, or two do.
InitRace ==
    /\ Constructed({RaceConfig}, 0)
    /\ NoLookup /\ NoDownload /\ Background
    /\ goroutines \in {[g \in gs |-> Resting] : gs \in {{1}, Goroutines}}

NextRace ==
    \/ \E g \in Goroutines : Begin(g)
    \/ \E g \in Goroutines : ReadToken(g)
    \/ \E g \in Goroutines : ReadExpiry(g)
    \/ \E g \in Goroutines, r \in RaceResponses : Exchange(g, r)
    \/ \E g \in Goroutines : SetExpiry(g)
    \/ \E g \in Goroutines : SetHeader(g)

SpecRace == InitRace /\ [][NextRace]_vars

\* C25: the refresh is not serialized.  A goroutine stores a token at most
\* once while the token stays fresh, so under single-threaded use the
\* token is stored at most once; a second store happens only with a second
\* goroutine (the witness shows that it does happen).
C25_SingleThreadedNoDoubleAuth ==
    /\ \A g \in DOMAIN goroutines : goroutines[g].wrote <= 1
    /\ DOMAIN goroutines = {1}
         => (goroutines[1].wrote = 1 => token # "")

\* C25 witness: two goroutines both read the same stale (empty) token, both
\* ran authenticate and both stored a token and an expiry; the token of the
\* first was overwritten by the second.
C25_Witness ==
    /\ DOMAIN goroutines = {1, 2}
    /\ goroutines[1].sawToken = "" /\ goroutines[2].sawToken = ""
    /\ goroutines[1].wrote = 1 /\ goroutines[2].wrote = 1
    /\ goroutines[1].ops = 1 /\ goroutines[2].ops = 1
    /\ goroutines[1].bearer = <<"Bearer ", "tokA">>
    /\ token = "tokB"

\* ------------------------------------------------------------------
\* Two downloads in flight on one client, each with its own dst and its
\* own progress callback.  The bytes served to call c are marked with c.

Marked(c, n) == [i \in 1 .. n |-> 10 * c + i]

ParallelResponses(c) ==
    {[kind |-> "transport"],
     [kind |-> "http", status |-> 200, data |-> Marked(c, MaxBody),
      length |-> MaxBody]}

InitParallel == Downloading(Calls)

FetchMarked(c, resp) == resp \in ParallelResponses(c) /\ Fetch(c, resp)

NextParallel ==
    \/ \E c \in Calls : StartDownload(c, TRUE)
    \/ \E c \in Calls :
          \E resp \in ParallelResponses(c) : FetchMarked(c, resp)
    \/ \E c \in Calls, n \in 1 .. MaxBody, e \in {"nil", "EOF"},
          written \in BOOLEAN : CopyRound(c, n, e, written)
    \/ \E c \in Calls : GiveUp(c)

SpecParallel == InitParallel /\ [][NextParallel]_vars

\* C26: two parallel downloads share no mutable state.  Under every
\* interleaving a step of one call leaves the other call's progress counter,
\* response body, sink and callback invocations as they were; after the step
\* each call's counter is the number of bytes read from its own body and
\* each sink holds only bytes served to its own call.  The client state a
\* download could share is not written.
C26_DownloadsShareNothing ==
    [][/\ \A c \in Calls, d \in Calls :
            (c # d /\ downloads'[c] # downloads[c])
               => /\ readers'[d] = readers[d]
                  /\ bodies'[d] = bodies[d]
                  /\ sinks'[d] = sinks[d]
                  /\ callbacks'[d] = callbacks[d]
                  /\ downloads'[d] = downloads[d]
       /\ \A c \in Calls :
            /\ \A i \in 1 .. Len(sinks'[c]) : sinks'[c][i] \div 10 = c
            /\ ~readers'[c].nil
                  => readers'[c].current = bodies'[c].consumed
       /\ config' = config /\ token' = token
       /\ tokenExpiry' = tokenExpiry]_vars

\* C26 witness: both calls are inside io.Copy at once, each has read part
\* of its body, with different counts.
C26_Witness ==
    /\ downloads[1].pc = "copy" /\ downloads[2].pc = "copy"
    /\ ~readers[1].nil /\ ~readers[2].nil
    /\ readers[1].current = 1 /\ readers[2].current = 2
    /\ sinks[1] = <<11>> /\ sinks[2] = <<21, 22>>

\* ------------------------------------------------------------------
\* Construction: the caller's Config, or nil, goes through NewClient (which
\* fills the caller's struct in place and keeps the pointer); one operation
\* without credentials then runs on the client.

ConfigInputs ==
    [Username : {""}, Password : {""},
     BaseURL : {"", "http://localhost:8080"},
     UserAgent : {"", "Custom/1.0"},
     MaxRetries : -1 .. MaxRetriesCfg,
     RetryDelay : {0, 2},
     Timeout : {0, 5}] \cup {NilConfig}

InitConfig ==
    /\ Constructed(ConfigInputs, 0)
    /\ NoLookup /\ NoDownload /\ Background /\ OneGoroutine

Construct ==
    /\ input = NoInput
    /\ config' = NewClient(config)
    /\ input' = [kind |-> "config", raw |-> config]
    /\ opLimit' = 1
    /\ UNCHANGED <<token, tokenExpiry, now, pc, op, attempt, lastErr, err,
                   req, result, nOps, calls, fails, authCalls, reqs, opStale,
                   lastAuthResp, lastAuthErr, opArgs, sleeps, output>>
    /\ UNCHANGED <<dlVars, ctxDone, goroutines>>

NextConfig ==
    \/ Construct
    \/ \E o \in Ops : \E a \in ArgsOf(o) : Call(o, a, 0)
    \/ \E r \in AuthResponses : Invoke(r)
    \/ \E resp \in ApiResponses : Send(resp)
    \/ Check
    \/ Exhausted

SpecConfig == InitConfig /\ [][NextConfig]_vars

\* C27: NewClient gives every zero-valued field its documented default and
\* leaves the other fields as the caller set them; a nil Config gives all
\* defaults; the configuration is not modified after construction; with
\* MaxRetries left at 0 the client runs with 3, so an operation whose
\* attempts all fail makes 4 of them.
C27_DefaultsFilledOnce ==
    [][/\ input = NoInput =>
            /\ config'.BaseURL =
                 IF config = [nil |-> TRUE] \/ config.BaseURL = ""
                 THEN "https://publication-bdds.apps.epo.org"
                 ELSE config.BaseURL
            /\ config'.UserAgent =
                 IF config = [nil |-> TRUE] \/ config.UserAgent = ""
                 THEN "PatentDev/BDDS/1.0" ELSE config.UserAgent
            /\ config'.MaxRetries =
                 IF config = [nil |-> TRUE] \/ config.MaxRetries = 0
                 THEN 3 ELSE config.MaxRetries
            /\ config'.RetryDelay =
                 IF config = [nil |-> TRUE] \/ config.RetryDelay = 0
                 THEN 1 ELSE config.RetryDelay
            /\ config'.Timeout =
                 IF config = [nil |-> TRUE] \/ config.Timeout = 0
                 THEN 30 ELSE config.Timeout
            /\ config'.Username = "" /\ config'.Password = ""
       /\ input # NoInput => config' = config
       /\ (input # NoInput /\ pc = "loop" /\ pc' = "idle"
             /\ (input.raw = [nil |-> TRUE] \/ input.raw.MaxRetries = 0))
            => calls = 4 /\ fails = 4]_vars

\* C27 witness: a Config with only MaxRetries and BaseURL left at zero was
\* passed, and an operation on the client gave up after 4 attempts.
C27_Witness ==
    /\ input # NoInput
    /\ input.raw # [nil |-> TRUE]
    /\ input.raw.MaxRetries = 0 /\ input.raw.BaseURL = ""
    /\ input.raw.UserAgent = "Custom/1.0" /\ input.raw.RetryDelay = 2
    /\ input.raw.Timeout = 5
    /\ config = [Username |-> "", Password |-> "",
                 BaseURL |-> "https://publication-bdds.apps.epo.org",
                 UserAgent |-> "Custom/1.0", MaxRetries |-> 3,
                 RetryDelay |-> 2, Timeout |-> 5]
    /\ pc = "idle" /\ nOps = 1 /\ calls = 4
    /\ result.type = "wrapError"

\* C28 (as claimed): the back-off is exponential: within one operation every
\* delay after the first is at least double the delay before it.
C28_ExponentialBackoff ==
    \A k \in 2 .. Len(sleeps) : sleeps[k] >= 2 * sleeps[k - 1]

\* ------------------------------------------------------------------
\* Rate limiting: both endpoints may answer 429 Too Many Requests.  One
\* operation runs through the retry loop; GetProductByName and
\* GetLatestDelivery then work on what ListProducts and GetProduct returned.

LimitConfigs ==
    {NewClient(c) : c \in [Username : {"", "user"}, Password : {"pass"},
                           UserAgent : {""},
                           BaseURL : {""}, Timeout : {0},
                           MaxRetries : {MaxRetriesCfg},
                           RetryDelay : {1}]}

LimitAuthResponses ==
    {[kind |-> "http", status |-> 429, body |-> Malformed],
     [kind |-> "http", status |-> 401, body |-> Malformed],
     [kind |-> "http", status |-> 200, body |-> TokenJSON("tokA", 3600)]}

LimitApiResponses ==
    {[kind |-> "transport"]} \cup
    {[kind |-> "http", status |-> s, body |-> "raw", json200 |-> TRUE,
      stream |-> "ok"] : s \in {200, 404, 429}}

InitLimit ==
    /\ Constructed(LimitConfigs, 1)
    /\ NoLookup /\ NoDownload /\ Background /\ OneGoroutine

\* GetProductByName on the outcome of its ListProducts call (a list without
\* a product of that name when the call succeeded).
LookupByName ==
    /\ pc = "idle" /\ nOps = 1 /\ op = "ListProducts"
    /\ output = NoOutput
    /\ output' = [kind |-> "returned"]
                    @@ GetProductByName(<<69, 80>>,
                          [products |-> <<>>, err |-> result])
    /\ UNCHANGED <<dlVars, ctxDone, goroutines>>
    /\ UNCHANGED <<config, token, tokenExpiry, now, pc, op, attempt, lastErr,
                   err, req, result, nOps, calls, fails, authCalls, reqs,
                   opStale, lastAuthResp, lastAuthErr, opArgs, sleeps,
                   opLimit, input>>

\* GetLatestDelivery on the outcome of its GetProduct call (a product
\* without deliveries when the call succeeded).
LookupLatest ==
    /\ pc = "idle" /\ nOps = 1 /\ op = "GetProduct"
    /\ output = NoOutput
    /\ output' = [kind |-> "returned"]
                    @@ GetLatestDelivery(opArgs[1],
                          [product |-> [nil |-> FALSE, ID |-> opArgs[1],
                                        Deliveries |-> <<>>],
                           err |-> result])
    /\ UNCHANGED <<dlVars, ctxDone, goroutines>>
    /\ UNCHANGED <<config, token, tokenExpiry, now, pc, op, attempt, lastErr,
                   err, req, result, nOps, calls, fails, authCalls, reqs,
                   opStale, lastAuthResp, lastAuthErr, opArgs, sleeps,
                   opLimit, input>>

NextLimit ==
    \/ \E o \in Ops : \E a \in ArgsOf(o) : Call(o, a, 0)
    \/ \E r \in LimitAuthResponses : Invoke(r)
    \/ \E resp \in LimitApiResponses : Send(resp)
    \/ Check
    \/ Exhausted
    \/ LookupByName
    \/ LookupLatest

SpecLimit == InitLimit /\ [][NextLimit]_vars

C30_NoSleepAfter401 ==
    [][(/\ pc = "check"
        /\ attempt < config.MaxRetries
        /\ \/ err.type = "AuthError" /\ err.StatusCode = 401
           \/ err.type = "wrapError" /\ err.inner.type = "AuthError"
                /\ err.inner.StatusCode = 401
           \/ err.type = "errorString" /\ err.msg = "unexpected status"
                /\ err.args[1] = 401)
          => sleeps' = sleeps /\ now' = now]_vars

\* C31 (as claimed): when a download returns success, the sink holds exactly
\* the body of the successful attempt's response, in order, with nothing
\* before it.
C31_SinkIsOneBody ==
    \A c \in DOMAIN downloads :
       (downloads[c].pc = "returned" /\ downloads[c].result.type = "nil")
          => sinks[c] = [i \in 1 .. bodies[c].consumed |-> i]

\* Within one attempt the claim's property does hold: a download that
\* succeeds at its first attempt leaves exactly that response's body in the
\* sink.
SinkIsBodyWithoutRetry ==
    \A c \in DOMAIN downloads :
       (downloads[c].pc = "returned" /\ downloads[c].result.type = "nil"
           /\ downloads[c].attempt = 0)
          => sinks[c] = [i \in 1 .. bodies[c].consumed |-> i]

\* C32: with credentials configured, an attempt in which authenticate fails
\* ends with an error and sends no resource request; a resource request goes
\* out only from an attempt whose ensureValidToken returned no error; one
\* operation makes at most MaxRetries+1 authenticate calls (one identity
\* request each) and at most MaxRetries+1 resource requests.
C32_ResourceOnlyAfterAuth ==
    [][/\ (pc = "loop" /\ authCalls' = authCalls + 1
             /\ lastAuthErr'.type # "nil")
            => pc' = "check" /\ reqs' = reqs /\ err'.type # "nil"
       /\ reqs' > reqs
            => /\ pc = "send" /\ reqs' = reqs + 1
               /\ lastAuthErr.type = "nil"
       /\ authCalls' > authCalls
            => /\ pc = "loop" /\ authCalls' = authCalls + 1
               /\ calls' = calls + 1
               /\ config.Username # "" /\ config.Password # ""
       /\ authCalls' <= config.MaxRetries + 1
       /\ reqs' <= config.MaxRetries + 1]_vars

\* C32 witness: an operation with credentials whose first attempt failed in
\* authenticate and sent nothing, and whose second attempt authenticated and
\* sent the one resource request of the operation.
C32_Witness ==
    /\ pc = "idle" /\ nOps = 1 /\ result.type = "nil"
    /\ config.Username # "" /\ config.Password # ""
    /\ calls = 2 /\ authCalls = 2 /\ reqs = 1

\* ------------------------------------------------------------------
\* The token's frame: a client with credentials that retries once runs two
\* operations (downloads included) some time apart, and the derived lookups work on what the first
\* operation returned.

FrameConfigs ==
    {NewClient(c) : c \in [Username : {"user"}, Password : {"pass"},
                           UserAgent : {""},
                           BaseURL : {""}, Timeout : {0},
                           MaxRetries : {1},
                           RetryDelay : {1}]}

InitFrame ==
    /\ Constructed(FrameConfigs, 2)
    /\ NoLookup /\ NoDownload /\ Background /\ OneGoroutine

NextFrame ==
    \/ \E o \in Ops, gap \in Gaps : \E a \in ArgsOf(o) : Call(o, a, gap)
    \/ \E r \in AuthResponses : Invoke(r)
    \/ \E resp \in ApiResponses : Send(resp)
    \/ Check
    \/ Exhausted
    \/ LookupByName
    \/ LookupLatest

SpecFrame == InitFrame /\ [][NextFrame]_vars

\* C33: token and expiry change in two ways only.  Either an authenticate
\* call succeeded in this step and wrote both (the token of the response and
\* now + tokenTTL), or the retry loop, looking at an attempt's error that is
\* an AuthError with status 401 while attempts remain, cleared both.  Every
\* other step leaves both as they were.
C33_TokenFrame ==
    [][(token' # token \/ tokenExpiry' # tokenExpiry)
         => \/ /\ pc = "loop"
               /\ authCalls' = authCalls + 1
               /\ lastAuthErr'.type = "nil"
               /\ lastAuthResp'.kind = "http" /\ lastAuthResp'.status = 200
               /\ token' = lastAuthResp'.body.access_token
               /\ tokenExpiry' = now' + tokenTTL
            \/ /\ pc = "check"
               /\ err.type = "AuthError" /\ err.StatusCode = 401
               /\ attempt < config.MaxRetries
               /\ token' = "" /\ tokenExpiry' = ZeroTime]_vars

\* C33 witness: the second operation found the token of the first one stale
\* and a successful authenticate has just replaced token and expiry.
C33_Witness ==
    /\ nOps = 2 /\ pc = "send" /\ authCalls = 1
    /\ lastAuthErr.type = "nil"
    /\ token = "tokB" /\ now > tokenTTL
    /\ tokenExpiry = now + tokenTTL

\* C34 (as claimed): for every configuration NewClient accepts, a negative
\* MaxRetries included, an operation that has returned has invoked its
\* closure at least once, and an error it returned wraps the error of an
\* attempt that failed.
C34_AtLeastOneAttempt ==
    (pc = "idle" /\ nOps > 0)
       => /\ calls >= 1
          /\ result.type # "nil"
               => /\ fails >= 1
                  /\ result.type = "wrapError"
                  /\ result.inner.type # "nil"

\* ------------------------------------------------------------------
\* Termination: one operation under the assumption that every request is
\* answered (or fails) and every time.Sleep returns, so that a running
\* operation always takes its next step.

LiveConfigs ==
    {NewClient(c) : c \in [Username : {"", "user"}, Password : {"pass"},
                           UserAgent : {""},
                           BaseURL : {""}, Timeout : {0},
                           MaxRetries : -1 .. MaxRetriesCfg,
                           RetryDelay : {0}]}

InitLive ==
    /\ Constructed(LiveConfigs, 1)
    /\ NoLookup /\ NoDownload /\ Background /\ OneGoroutine

\* The steps of a running operation.
Running ==
    \/ \E r \in AuthResponses : Invoke(r)
    \/ \E resp \in ApiResponses : Send(resp)
    \/ Check
    \/ Exhausted

NextLive ==
    \/ \E o \in Ops : \E a \in ArgsOf(o) : Call(o, a, 0)
    \/ \E r \in AuthResponses : Invoke(r)
    \/ \E resp \in ApiResponses : Send(resp)
    \/ Check
    \/ Exhausted

SpecLive == InitLive /\ [][NextLive]_vars /\ WF_vars(Running)

\* C35: every operation that was called eventually returns, provided its
\* requests and sleeps terminate; every failed attempt raises the attempt
\* index by exactly one, whatever the error (a 401 included) and whether or
\* not the token was cleared, and the index never passes MaxRetries + 1.
C35_OperationReturns ==
    /\ (pc # "idle") ~> (pc = "idle" /\ result.type # "none")
    /\ [][/\ (pc = "check" /\ err.type # "nil") => attempt' = attempt + 1
          /\ (pc # "check" /\ pc' # "loop") => attempt' = attempt
          /\ (pc # "idle" /\ config.MaxRetries >= 0)
                => attempt' <= config.MaxRetries + 1]_vars

\* C35 witness: the identity endpoint answered 401 in each of the four
\* attempts of an operation, and the operation has returned.
C35_Witness ==
    /\ pc = "idle" /\ nOps = 1
    /\ config.MaxRetries = 3
    /\ calls = 4 /\ authCalls = 4 /\ fails = 4 /\ reqs = 0
    /\ result.type = "wrapError"
    /\ result.inner.type = "wrapError"
    /\ result.inner.inner.type = "AuthError"
    /\ result.inner.inner.StatusCode = 401

\* ------------------------------------------------------------------
\* The same server behaviour played to two downloads: call 1 is
\* DownloadFile (no callback), call 2 is DownloadFileWithProgress with a
\* callback, started when call 1 has returned.  The script fixes, attempt by
\* attempt, the answer to the request and what each Read on the body and
\* each Write to dst will do.

ScriptReads ==
    {<<1, "nil", TRUE>>, <<MaxBody, "EOF", TRUE>>,
     <<MaxBody - 1, "EOF", TRUE>>, <<0, "EOF", TRUE>>, <<0, "nil", TRUE>>,
     <<1, "unexpected EOF", TRUE>>, <<1, "nil", FALSE>>}

ScriptAttempts ==
    {[resp |-> [kind |-> "transport"], reads |-> <<>>],
     [resp |-> [kind |-> "http", status |-> 404, body |-> "raw",
                json200 |-> FALSE, stream |-> "ok"], reads |-> <<>>]}
    \cup
    {[resp |-> [kind |-> "http", status |-> 200, data |-> BodyOf(MaxBody),
                length |-> l], reads |-> rs] :
        l \in {MaxBody, UnknownLength},
        rs \in {<<x>> : x \in ScriptReads}
               \cup {<<x, y>> : x \in ScriptReads, y \in ScriptReads}}

InitTwin ==
    /\ Constructed({DownloadConfig}, 0)
    /\ input \in {[kind |-> "script", attempts |-> <<a, b>>] :
                     a \in ScriptAttempts, b \in ScriptAttempts}
    /\ output = NoOutput
    /\ Background /\ OneGoroutine
    /\ downloads = [c \in Calls |-> NotStarted]
    /\ readers = [c \in Calls |-> NoReader]
    /\ bodies = [c \in Calls |-> NoBody]
    /\ sinks = [c \in Calls |-> <<>>]
    /\ callbacks = [c \in Calls |-> <<>>]
    /\ lastRead = NoRead

\* DownloadFile passes a nil progressFn on; the second call passes one.
PlayStart(c) ==
    /\ c = 2 => downloads[1].pc = "returned"
    /\ StartDownload(c, c = 2)

PlayFetch(c) ==
    /\ downloads[c].attempt < Len(input.attempts)
    /\ Fetch(c, input.attempts[downloads[c].attempt + 1].resp)

PlayCopy(c) ==
    /\ downloads[c].pc = "copy"
    /\ LET reads == input.attempts[downloads[c].attempt + 1].reads
           k == bodies[c].reads + 1
       IN  /\ k <= Len(reads)
           /\ CopyRound(c, reads[k][1], reads[k][2], reads[k][3])

NextTwin ==
    \/ \E c \in Calls : PlayStart(c)
    \/ \E c \in Calls : PlayFetch(c)
    \/ \E c \in Calls : PlayCopy(c)
    \/ \E c \in Calls : GiveUp(c)

SpecTwin == InitTwin /\ [][NextTwin]_vars

\* C36: observing progress is transparent.  For the same answers, Reads and
\* Writes, DownloadFile and DownloadFileWithProgress with a callback leave
\* the same bytes in the sink, make the same number of attempts and return
\* the same outcome; DownloadFile invokes no callback.
C36_ProgressTransparent ==
    /\ callbacks[1] = <<>>
    /\ (downloads[1].pc = "returned" /\ downloads[2].pc = "returned")
         => /\ sinks[1] = sinks[2]
            /\ downloads[1].attempt = downloads[2].attempt
            /\ downloads[1].result = downloads[2].result

\* C36 witness: the first attempt copied one byte and failed in mid-stream,
\* the second copied the whole body; both calls returned success with the
\* same three bytes written, and the callback saw the second call's Reads.
C36_Witness ==
    /\ downloads[1].pc = "returned" /\ downloads[2].pc = "returned"
    /\ downloads[1].result.type = "nil" /\ downloads[2].result.type = "nil"
    /\ downloads[2].attempt = 1
    /\ Len(sinks[2]) = MaxBody + 1
    /\ Len(callbacks[2]) >= 2
    /\ readers[1].nil /\ ~readers[2].nil

====
